---- MODULE Spec2Model ----
(***************************************************************************)
(* virtray: one tray icon per configured libvirt domain.  The model covers *)
(* the Hypervisor Session (LibvirtManager), the Tray Orchestrator          *)
(* (VirtTray) and the window handling (WindowManager) of src/virtray.py.   *)
(*                                                                         *)
(* The program is single threaded: a handler runs to completion before the *)
(* next event is taken.  The hypervisor, the file system and the window    *)
(* manager are outside the program and change on their own; they are the   *)
(* Ext* and Window* actions.  Handlers that block on a sequence of long    *)
(* external calls (the batch loops, the polling loop with its sleeps) are  *)
(* modelled one loop iteration per step, so that the outside world can     *)
(* move between the iterations.                                            *)
(*                                                                         *)
(* handler, msgs, calls, cmds, raised, polls and sleeps record what the     *)
(* handler that is running, or has just returned, did.  The record is      *)
(* dropped when the outside world moves after the return (Observed): what  *)
(* a handler did is compared with the world it acted on.                   *)
(*                                                                         *)
(* Strings built by f-strings are tuples of their pieces; a line of the    *)
(* window listing is the sequence of its whitespace-delimited tokens, and  *)
(* a window title is the sequence of its tokens (single-space separated).  *)
(***************************************************************************)
EXTENDS Integers, Sequences, FiniteSets, TLC

\* ------------------------------------------------------------------ bounds
NumItems == 2
MaxWindows == 2

\* --------------------------------------------------------------- constants
MaxPolls == 10

DomainNames == <<"a", "b", "c", "d">>
IdNames == <<"0x01", "0x02", "0x03", "0x04", "0x05">>

\* config.items: the ordered list of configured domains (Item.domain)
Config == [i \in 1..NumItems |-> DomainNames[i]]
Items == 1..NumItems
Domains == {Config[i] : i \in Items}

VARIABLES
    running,    \* hypervisor: domain -> isActive
    saveFile,   \* file system: domain -> the save file exists
    enabled,    \* item -> enablement of its Start/Force Shutdown/Save/Restore actions
    menuOpen,   \* the item whose context menu is shown (0: none)
    batch,      \* position of the running save_all / restore_all loop
    windows,    \* the window manager's client list, in listed order
    poll,       \* position of the running open_virt_manager polling loop
    handler,    \* the handler that runs or ran last
    msgs,       \* notifications shown by that handler, with their sink
    calls,      \* mutators of LibvirtManager invoked by that handler
    cmds,       \* window commands executed by that handler
    raised,     \* the exception that ended that handler ("" for none)
    polls,      \* window-lookup polls made by that handler
    sleeps,     \* time.sleep(0.1) calls made by that handler
    before      \* the round trip under observation: its phase, and the domains
                \* that were running when its Save All began

vars == <<running, saveFile, enabled, menuOpen, batch, windows, poll,
          handler, msgs, calls, cmds, raised, polls, sleeps, before>>

trayVars == <<running, saveFile, enabled, menuOpen, batch>>
winVars == <<windows, poll>>

Idle == batch.op = "" /\ ~poll.active

\* A change outside the program: a running handler's record is kept, the
\* record of a handler that has returned is dropped.
Observed ==
    IF Idle
      THEN /\ handler' = <<"", 0>>
           /\ msgs' = <<>> /\ calls' = <<>> /\ cmds' = <<>> /\ raised' = ""
           /\ polls' = 0 /\ sleeps' = 0
      ELSE UNCHANGED <<handler, msgs, calls, cmds, raised, polls, sleeps>>

\* ------------------------------------------------------ LibvirtManager
PrintSink == "print"
TraySink(i) == Config[i]

Msg(sink, text) == [sink |-> sink, text |-> text]

get_save_path(domain) == <<"/var/lib/libvirt/qemu/save/", domain, ".save">>

is_saved(domain) == saveFile[domain]

is_running(domain) == running[domain]

\* What the hypervisor does on a call; ok = FALSE is any failure of its own
\* (I/O error, ...).
HvCreate(domain, ok) == ok /\ ~running[domain]
HvDestroy(domain, ok) == ok /\ running[domain]
HvSave(domain, ok) == ok /\ running[domain]
HvRestore(domain, ok) == ok /\ saveFile[domain] /\ ~running[domain]

\* faulty variant: "started" is shown whether or not the hypervisor call succeeded
start_CompletionAlways(sink, domain, ok, m0, c0) ==
    LET m1 == Append(m0, Msg(sink, <<"starting", domain>>)) IN
    /\ calls' = Append(c0, <<"start", domain>>)
    /\ UNCHANGED saveFile
    /\ msgs' = Append(m1, Msg(sink, <<"started", domain>>))
    /\ IF HvCreate(domain, ok)
         THEN /\ running' = [running EXCEPT ![domain] = TRUE]
              /\ raised' = ""
         ELSE /\ UNCHANGED running
              /\ raised' = "libvirtError"

start(sink, domain, ok, m0, c0) ==
    LET m1 == Append(m0, Msg(sink, <<"starting", domain>>)) IN
    /\ calls' = Append(c0, <<"start", domain>>)
    /\ UNCHANGED saveFile
    /\ IF HvCreate(domain, ok)
         THEN /\ running' = [running EXCEPT ![domain] = TRUE]
              /\ msgs' = Append(m1, Msg(sink, <<"started", domain>>))
              /\ raised' = ""
         ELSE /\ UNCHANGED running
              /\ msgs' = m1
              /\ raised' = "libvirtError"

force_shutdown(sink, domain, ok, m0, c0) ==
    LET m1 == Append(m0, Msg(sink, <<"force shutting down", domain>>)) IN
    /\ calls' = Append(c0, <<"force_shutdown", domain>>)
    /\ UNCHANGED saveFile
    /\ IF HvDestroy(domain, ok)
         THEN /\ running' = [running EXCEPT ![domain] = FALSE]
              /\ msgs' = Append(m1, Msg(sink, <<"force shut down", domain>>))
              /\ raised' = ""
         ELSE /\ UNCHANGED running
              /\ msgs' = m1
              /\ raised' = "libvirtError"

\* faulty variant: the domain is written to the save file and goes on running
save_LeavesRunning(sink, domain, ok, m0, c0) ==
    LET m1 == Append(m0, Msg(sink, <<"saving", domain>>)) IN
    /\ calls' = Append(c0, <<"save", domain>>)
    /\ UNCHANGED running
    /\ IF HvSave(domain, ok)
         THEN /\ saveFile' = [saveFile EXCEPT ![domain] = TRUE]
              /\ msgs' = Append(m1, Msg(sink, <<"saved to", get_save_path(domain)>>))
              /\ raised' = ""
         ELSE /\ UNCHANGED saveFile
              /\ msgs' = m1
              /\ raised' = "libvirtError"

\* faulty variant: the completion notification is shown before the hypervisor call
save_CompletionFirst(sink, domain, ok, m0, c0) ==
    LET m1 == Append(m0, Msg(sink, <<"saved to", get_save_path(domain)>>)) IN
    /\ calls' = Append(c0, <<"save", domain>>)
    /\ IF HvSave(domain, ok)
         THEN /\ running' = [running EXCEPT ![domain] = FALSE]
              /\ saveFile' = [saveFile EXCEPT ![domain] = TRUE]
              /\ msgs' = Append(m1, Msg(sink, <<"saving", domain>>))
              /\ raised' = ""
         ELSE /\ UNCHANGED <<running, saveFile>>
              /\ msgs' = m1
              /\ raised' = "libvirtError"

save(sink, domain, ok, m0, c0) ==
    LET m1 == Append(m0, Msg(sink, <<"saving", domain>>)) IN
    /\ calls' = Append(c0, <<"save", domain>>)
    /\ IF HvSave(domain, ok)
         THEN /\ running' = [running EXCEPT ![domain] = FALSE]
              /\ saveFile' = [saveFile EXCEPT ![domain] = TRUE]
              /\ msgs' = Append(m1, Msg(sink, <<"saved to", get_save_path(domain)>>))
              /\ raised' = ""
         ELSE /\ UNCHANGED <<running, saveFile>>
              /\ msgs' = m1
              /\ raised' = "libvirtError"

\* consumed: whether the hypervisor removes the save file after the restore
restore(sink, domain, ok, consumed, m0, c0) ==
    LET m1 == Append(m0, Msg(sink, <<"restoring", domain>>)) IN
    /\ calls' = Append(c0, <<"restore", domain>>)
    /\ IF HvRestore(domain, ok)
         THEN /\ running' = [running EXCEPT ![domain] = TRUE]
              /\ saveFile' = [saveFile EXCEPT ![domain] = ~consumed]
              /\ msgs' = Append(m1, Msg(sink, <<"restored from", get_save_path(domain)>>))
              /\ raised' = ""
         ELSE /\ UNCHANGED <<running, saveFile>>
              /\ msgs' = m1
              /\ raised' = "libvirtError"

\* ------------------------------------------------------------ VirtTray
\* The sink of the LibvirtManager a menu action of item i calls.
MenuVirtSink(i) == TraySink(i)

\* The sink of self.virt, the LibvirtManager the batch operations call.
BatchVirtSink == PrintSink

\* faulty variant: Restore is enabled only for a saved domain that is stopped
MenuFlags_RestoreWhenStopped(r1, r2, r3, s1, s2) ==
    [start |-> ~r1, forceShutdown |-> r2, save |-> (r3 /\ ~s1), restore |-> (s2 /\ ~r1)]

\* The four setEnabled calls, from the results of the successive queries.
MenuFlags(r1, r2, r3, s1, s2) ==
    [start |-> ~r1, forceShutdown |-> r2, save |-> (r3 /\ ~s1), restore |-> s2]

\* create_tray_icon: the flags set when the menu of item i is built.
CreateFlags(i) ==
    MenuFlags(is_running(Config[i]), is_running(Config[i]), is_running(Config[i]),
              is_saved(Config[i]), is_saved(Config[i]))

\* faulty variant: the Restore flag is kept from the previous observation
MenuRecompute_Cached(i) ==
    [MenuFlags(is_running(Config[i]), is_running(Config[i]), is_running(Config[i]),
               is_saved(Config[i]), is_saved(Config[i]))
        EXCEPT !.restore = enabled[i].restore]

\* update_menu: the flags set when the menu of item i is about to show.
MenuRecompute(i) ==
    MenuFlags(is_running(Config[i]), is_running(Config[i]), is_running(Config[i]),
              is_saved(Config[i]), is_saved(Config[i]))

\* menu.aboutToShow of item i
update_menu(i) ==
    /\ UNCHANGED before
    /\ Idle
    /\ menuOpen = 0
    /\ menuOpen' = i
    /\ enabled' = [enabled EXCEPT ![i] = MenuRecompute(i)]
    /\ handler' = <<"update_menu", i>>
    /\ msgs' = <<>> /\ calls' = <<>> /\ cmds' = <<>> /\ raised' = ""
    /\ polls' = 0 /\ sleeps' = 0
    /\ UNCHANGED <<running, saveFile, batch, winVars>>

\* menu.aboutToShow of item i while the hypervisor and the file system change
\* between the queries of update_menu: the first is_running reads the present
\* state, r2 and r3 are what the second and third is_running return, s1 and
\* s2 what the two is_saved return; the outside world is left at the last
\* values read.
update_menu_raced(i, r2, r3, s1, s2) ==
    /\ UNCHANGED before
    /\ Idle
    /\ menuOpen = 0
    /\ menuOpen' = i
    /\ enabled' = [enabled EXCEPT ![i] = MenuFlags(is_running(Config[i]), r2, r3, s1, s2)]
    /\ running' = [running EXCEPT ![Config[i]] = r3]
    /\ saveFile' = [saveFile EXCEPT ![Config[i]] = s2]
    /\ handler' = <<"update_menu", i>>
    /\ msgs' = <<>> /\ calls' = <<>> /\ cmds' = <<>> /\ raised' = ""
    /\ polls' = 0 /\ sleeps' = 0
    /\ UNCHANGED <<batch, winVars>>

MenuStart(i, ok) ==
    /\ UNCHANGED before
    /\ Idle
    /\ menuOpen = i
    /\ menuOpen' = 0
    /\ enabled[i].start
    /\ start(MenuVirtSink(i), Config[i], ok, <<>>, <<>>)
    /\ handler' = <<"start", i>>
    /\ cmds' = <<>> /\ polls' = 0 /\ sleeps' = 0
    /\ UNCHANGED <<enabled, batch, winVars>>

MenuForceShutdown(i, ok) ==
    /\ UNCHANGED before
    /\ Idle
    /\ menuOpen = i
    /\ menuOpen' = 0
    /\ enabled[i].forceShutdown
    /\ force_shutdown(MenuVirtSink(i), Config[i], ok, <<>>, <<>>)
    /\ handler' = <<"force_shutdown", i>>
    /\ cmds' = <<>> /\ polls' = 0 /\ sleeps' = 0
    /\ UNCHANGED <<enabled, batch, winVars>>

MenuSave(i, ok) ==
    /\ UNCHANGED before
    /\ Idle
    /\ menuOpen = i
    /\ menuOpen' = 0
    /\ enabled[i].save
    /\ save(MenuVirtSink(i), Config[i], ok, <<>>, <<>>)
    /\ handler' = <<"save", i>>
    /\ cmds' = <<>> /\ polls' = 0 /\ sleeps' = 0
    /\ UNCHANGED <<enabled, batch, winVars>>

MenuRestore(i, ok, consumed) ==
    /\ UNCHANGED before
    /\ Idle
    /\ menuOpen = i
    /\ menuOpen' = 0
    /\ enabled[i].restore
    /\ restore(MenuVirtSink(i), Config[i], ok, consumed, <<>>, <<>>)
    /\ handler' = <<"restore", i>>
    /\ cmds' = <<>> /\ polls' = 0 /\ sleeps' = 0
    /\ UNCHANGED <<enabled, batch, winVars>>

\* Save All / Restore All selected: the loop starts at the first item.
BatchBegin(op) ==
    /\ Idle
    /\ menuOpen # 0
    /\ menuOpen' = 0
    /\ batch' = [op |-> op, idx |-> 1]
    /\ handler' = <<op, 0>>
    /\ msgs' = <<>> /\ calls' = <<>> /\ cmds' = <<>> /\ raised' = ""
    /\ polls' = 0 /\ sleeps' = 0
    /\ UNCHANGED <<running, saveFile, enabled, winVars>>

\* faulty variant: save_all skips a running domain that already has a save file
save_all_cond_Unsaved(domain) == is_running(domain) /\ ~is_saved(domain)

save_all_cond(domain) == is_running(domain)

\* faulty variant: restore_all tests is_running, as save_all does
restore_all_cond_Running(domain) == is_running(domain)

\* faulty variant: restore_all restores every configured domain
restore_all_cond_Always(domain) == TRUE

restore_all_cond(domain) == is_saved(domain)

\* faulty variant: the loop body catches the exception of an item and goes on
BatchAdvance_Isolated ==
    batch' = IF batch.idx = NumItems
               THEN [op |-> "", idx |-> 0]
               ELSE [batch EXCEPT !.idx = @ + 1]

\* After the body of one iteration: an exception leaves the loop (nothing
\* catches it), otherwise the loop goes on to the next item or returns.
BatchAdvance ==
    batch' = IF raised' # "" \/ batch.idx = NumItems
               THEN [op |-> "", idx |-> 0]
               ELSE [batch EXCEPT !.idx = @ + 1]

save_all_step(ok) ==
    /\ UNCHANGED before
    /\ batch.op = "save_all"
    /\ IF save_all_cond(Config[batch.idx])
         THEN save(BatchVirtSink, Config[batch.idx], ok, msgs, calls)
         ELSE UNCHANGED <<running, saveFile, msgs, calls, raised>>
    /\ BatchAdvance
    /\ UNCHANGED <<enabled, menuOpen, handler, cmds, polls, sleeps, winVars>>

restore_all_step(ok, consumed) ==
    /\ UNCHANGED before
    /\ batch.op = "restore_all"
    /\ IF restore_all_cond(Config[batch.idx])
         THEN restore(BatchVirtSink, Config[batch.idx], ok, consumed, msgs, calls)
         ELSE UNCHANGED <<running, saveFile, msgs, calls, raised>>
    /\ BatchAdvance
    /\ UNCHANGED <<enabled, menuOpen, handler, cmds, polls, sleeps, winVars>>

\* The menu is closed without a selection.
MenuDismiss ==
    /\ UNCHANGED before
    /\ menuOpen # 0
    /\ menuOpen' = 0
    /\ UNCHANGED <<running, saveFile, enabled, batch, winVars,
                   handler, msgs, calls, cmds, raised, polls, sleeps>>

\* ------------------------------------------------- outside the program
ExtRunning(domain) ==
    /\ UNCHANGED before
    /\ running' = [running EXCEPT ![domain] = ~@]
    /\ Observed
    /\ UNCHANGED <<saveFile, enabled, menuOpen, batch, winVars>>

ExtSaveFile(domain) ==
    /\ UNCHANGED before
    /\ saveFile' = [saveFile EXCEPT ![domain] = ~@]
    /\ Observed
    /\ UNCHANGED <<running, enabled, menuOpen, batch, winVars>>

\* -------------------------------------------------------- WindowManager
\* Output of "wmctrl -l": one line per window, "<id> <desktop> <host> <title>".
WmctrlL ==
    [k \in 1..Len(windows) |-> <<windows[k].id, "0", "host">> \o windows[k].title]

\* execute_command("wmctrl -l").strip().split("\n"): the lines of the output;
\* the empty output splits into one empty line.
SplitLines(out) == IF out = <<>> THEN << <<>> >> ELSE out

\* line.split(sep=None, maxsplit=3): at most three tokens, then the remainder
\* of the line as one piece (absent when the line has three tokens or fewer).
SplitMax3(line) ==
    IF Len(line) <= 3
      THEN [k \in 1..Len(line) |-> <<line[k]>>]
      ELSE << <<line[1]>>, <<line[2]>>, <<line[3]>>, SubSeq(line, 4, Len(line)) >>

\* faulty variant: two tokens (id, metadata) are split off, the rest is the title
get_wmctrl_items_TwoTokens(out) ==
    LET lines == SplitLines(out) IN
    IF \E k \in 1..Len(lines) : Len(lines[k]) < 3
      THEN [raised |-> "ValueError", items |-> <<>>]
      ELSE [raised |-> "",
            items |-> [k \in 1..Len(lines) |->
                         [window_id |-> lines[k][1],
                          title |-> SubSeq(lines[k], 3, Len(lines[k]))]]]

\* get_wmctrl_items: "ValueError" when a line does not unpack into four parts.
get_wmctrl_items(out) ==
    LET lines == SplitLines(out) IN
    IF \E k \in 1..Len(lines) : Len(SplitMax3(lines[k])) # 4
      THEN [raised |-> "ValueError", items |-> <<>>]
      ELSE [raised |-> "",
            items |-> [k \in 1..Len(lines) |->
                         [window_id |-> SplitMax3(lines[k])[1][1],
                          title |-> SplitMax3(lines[k])[4]]]]

virt_manager_target_title(domain) == <<domain, "on", "QEMU/KVM">>

is_target_title(title, domain) == title = virt_manager_target_title(domain)

\* Positions of the items whose title is the target, in listed order.
RECURSIVE Matches(_, _, _)
Matches(items, domain, k) ==
    IF k > Len(items) THEN <<>>
    ELSE (IF is_target_title(items[k].title, domain) THEN <<k>> ELSE <<>>)
         \o Matches(items, domain, k + 1)

\* faulty variant: the last matching item is returned
try_get_wmctrl_item_Last(out, domain) ==
    LET got == get_wmctrl_items(out) IN
    IF got.raised # "" THEN [raised |-> got.raised, found |-> FALSE]
    ELSE LET m == Matches(got.items, domain, 1) IN
         IF m = <<>> THEN [raised |-> "", found |-> FALSE]
         ELSE [raised |-> "", found |-> TRUE, item |-> got.items[m[Len(m)]]]

\* try_get_wmctrl_item: the first matching item, or found = FALSE.
try_get_wmctrl_item(out, domain) ==
    LET got == get_wmctrl_items(out) IN
    IF got.raised # "" THEN [raised |-> got.raised, found |-> FALSE]
    ELSE LET m == Matches(got.items, domain, 1) IN
         IF m = <<>> THEN [raised |-> "", found |-> FALSE]
         ELSE [raised |-> "", found |-> TRUE, item |-> got.items[m[1]]]

\* is_window_open: line by line, the last part of the split is the title;
\* "IndexError" on a line without any token reached before a match.
RECURSIVE is_window_open_from(_, _, _)
is_window_open_from(lines, domain, k) ==
    IF k > Len(lines) THEN "False"
    ELSE LET parts == SplitMax3(lines[k]) IN
         IF parts = <<>> THEN "IndexError"
         ELSE IF is_target_title(parts[Len(parts)], domain) THEN "True"
         ELSE is_window_open_from(lines, domain, k + 1)

is_window_open(out, domain) == is_window_open_from(SplitLines(out), domain, 1)

LaunchCmd(domain) == <<"virt-manager --connect=qemu:///system --show-domain-console=", domain>>
CloseCmd(id) == <<"wmctrl -ic", id>>
ActivateCmd(id) == <<"wmctrl -ia", id>>

\* close_window: the commands it executes, one per matching item.
close_window_cmds(items, domain) ==
    LET m == Matches(items, domain, 1) IN
    [k \in 1..Len(m) |-> CloseCmd(items[m[k]].window_id)]

\* The window manager closes the windows it is asked to close.
RECURSIVE Remaining(_, _)
Remaining(ws, ids) ==
    IF ws = <<>> THEN <<>>
    ELSE (IF Head(ws).id \in ids THEN <<>> ELSE <<Head(ws)>>) \o Remaining(Tail(ws), ids)

\* The tray icon of item i is activated with reason Trigger.
trigger_virt_manager(i) ==
    LET domain == Config[i]
        open == is_window_open(WmctrlL, domain)
        got == get_wmctrl_items(WmctrlL)
        closes == close_window_cmds(got.items, domain)
    IN
    /\ UNCHANGED before
    /\ Idle
    /\ menuOpen = 0
    /\ handler' = <<"trigger", i>>
    /\ msgs' = <<>> /\ calls' = <<>> /\ polls' = 0 /\ sleeps' = 0
    /\ UNCHANGED trayVars
    /\ IF open = "IndexError"
         THEN /\ raised' = "IndexError"
              /\ cmds' = <<>>
              /\ UNCHANGED <<windows, poll>>
       ELSE IF open = "True"
         THEN \* close_window
              IF got.raised # ""
                THEN /\ raised' = got.raised
                     /\ cmds' = <<>>
                     /\ UNCHANGED <<windows, poll>>
                ELSE /\ raised' = ""
                     /\ cmds' = closes
                     /\ windows' = Remaining(windows, {closes[k][2] : k \in 1..Len(closes)})
                     /\ UNCHANGED poll
         ELSE \* open_virt_manager: the launch, then the polling loop
              /\ raised' = ""
              /\ cmds' = <<LaunchCmd(domain)>>
              /\ poll' = [active |-> TRUE, item |-> i, n |-> 0]
              /\ UNCHANGED windows

\* faulty variant: running out of polls is reported as an error
poll_step_RaiseWhenExhausted ==
    LET domain == Config[poll.item]
        r == try_get_wmctrl_item(WmctrlL, domain)
        done == [active |-> FALSE, item |-> 0, n |-> 0]
    IN
    /\ UNCHANGED before
    /\ poll.active
    /\ polls' = polls + 1
    /\ UNCHANGED <<trayVars, windows, handler, msgs, calls>>
    /\ IF r.raised # ""
         THEN /\ raised' = r.raised
              /\ poll' = done
              /\ UNCHANGED <<cmds, sleeps>>
       ELSE IF r.found
         THEN /\ cmds' = Append(cmds, ActivateCmd(r.item.window_id))
              /\ poll' = done
              /\ UNCHANGED <<raised, sleeps>>
         ELSE /\ sleeps' = sleeps + 1
              /\ poll' = IF poll.n + 1 = MaxPolls THEN done ELSE [poll EXCEPT !.n = @ + 1]
              /\ raised' = IF poll.n + 1 = MaxPolls THEN "TimeoutError" ELSE raised
              /\ UNCHANGED cmds

\* One iteration of the polling loop of open_virt_manager.
poll_step ==
    LET domain == Config[poll.item]
        r == try_get_wmctrl_item(WmctrlL, domain)
        done == [active |-> FALSE, item |-> 0, n |-> 0]
    IN
    /\ UNCHANGED before
    /\ poll.active
    /\ polls' = polls + 1
    /\ UNCHANGED <<trayVars, windows, handler, msgs, calls>>
    /\ IF r.raised # ""
         THEN /\ raised' = r.raised
              /\ poll' = done
              /\ UNCHANGED <<cmds, sleeps>>
       ELSE IF r.found
         THEN /\ cmds' = Append(cmds, ActivateCmd(r.item.window_id))
              /\ poll' = done
              /\ UNCHANGED <<raised, sleeps>>
         ELSE /\ sleeps' = sleeps + 1
              /\ poll' = IF poll.n + 1 = MaxPolls THEN done ELSE [poll EXCEPT !.n = @ + 1]
              /\ UNCHANGED <<raised, cmds>>

\* ------------------------------------------- outside: the window manager
Titles == {virt_manager_target_title(d) : d \in Domains} \cup {<<"xterm">>, <<>>}

FreshId == IdNames[CHOOSE n \in 1..(Len(windows) + 1) :
                     /\ \A k \in 1..Len(windows) : windows[k].id # IdNames[n]
                     /\ \A m \in 1..(n - 1) : \E k \in 1..Len(windows) : windows[k].id = IdNames[m]]

WindowAppears(title) ==
    /\ UNCHANGED before
    /\ Len(windows) < MaxWindows
    /\ windows' = Append(windows, [id |-> FreshId, title |-> title])
    /\ Observed
    /\ UNCHANGED <<trayVars, poll>>

WindowCloses(k) ==
    /\ UNCHANGED before
    /\ k \in 1..Len(windows)
    /\ windows' = Remaining(windows, {windows[k].id})
    /\ Observed
    /\ UNCHANGED <<trayVars, poll>>

\* ------------------------------------------------------- specification
\* create_tray_icon has run for every item: the flags are those it set.
Init ==
    /\ running \in [Domains -> BOOLEAN]
    /\ saveFile \in [Domains -> BOOLEAN]
    /\ enabled = [i \in Items |-> CreateFlags(i)]
    /\ menuOpen = 0
    /\ batch = [op |-> "", idx |-> 0]
    /\ windows = <<>>
    /\ poll = [active |-> FALSE, item |-> 0, n |-> 0]
    /\ handler = <<"create_tray_icon", 0>>
    /\ msgs = <<>> /\ calls = <<>> /\ cmds = <<>> /\ raised = ""
    /\ polls = 0 /\ sleeps = 0
    /\ before = [phase |-> "", running |-> {}]

NextTray ==
    \/ \E i \in Items : update_menu(i)
    \/ \E i \in Items, ok \in BOOLEAN : MenuStart(i, ok)
    \/ \E i \in Items, ok \in BOOLEAN : MenuForceShutdown(i, ok)
    \/ \E i \in Items, ok \in BOOLEAN : MenuSave(i, ok)
    \/ \E i \in Items, ok \in BOOLEAN, consumed \in BOOLEAN : MenuRestore(i, ok, consumed)
    \/ MenuDismiss
    \/ \E op \in {"save_all", "restore_all"} : BatchBegin(op) /\ UNCHANGED before
    \/ \E ok \in BOOLEAN : save_all_step(ok)
    \/ \E ok \in BOOLEAN, consumed \in BOOLEAN : restore_all_step(ok, consumed)
    \/ \E d \in Domains : ExtRunning(d)
    \/ \E d \in Domains : ExtSaveFile(d)

SpecTray == Init /\ [][NextTray]_vars

\* The window side alone: no domain runs and no save file exists.
InitWin ==
    /\ Init
    /\ running = [d \in Domains |-> FALSE]
    /\ saveFile = [d \in Domains |-> FALSE]

NextWin ==
    \/ \E i \in Items : trigger_virt_manager(i)
    \/ poll_step
    \/ \E t \in Titles : WindowAppears(t)
    \/ \E k \in 1..MaxWindows : WindowCloses(k)

SpecWin == InitWin /\ [][NextWin]_vars

\* The menus are opened and closed while the outside world changes under the
\* recompute.
NextRace ==
    \/ \E i \in Items, r2 \in BOOLEAN, r3 \in BOOLEAN, s2 \in BOOLEAN :
          \* "and" short-circuits: the first is_saved is called only when r3 holds
          \E s1 \in (IF r3 THEN BOOLEAN ELSE {s2}) :
              update_menu_raced(i, r2, r3, s1, s2)
    \/ MenuDismiss

SpecRace == Init /\ [][NextRace]_vars

\* The tray side with a hypervisor whose calls all succeed, a restore that
\* consumes the save file, and nothing changing from outside; at the start no
\* domain is both running and saved.
InitIdeal ==
    /\ Init
    /\ \A d \in Domains : ~(running[d] /\ saveFile[d])

NextIdeal ==
    \/ \E i \in Items : update_menu(i)
    \/ \E i \in Items : MenuStart(i, TRUE)
    \/ \E i \in Items : MenuForceShutdown(i, TRUE)
    \/ \E i \in Items : MenuSave(i, TRUE)
    \/ \E i \in Items : MenuRestore(i, TRUE, TRUE)
    \/ MenuDismiss
    \/ \E op \in {"save_all", "restore_all"} : BatchBegin(op) /\ UNCHANGED before
    \/ save_all_step(TRUE)
    \/ restore_all_step(TRUE, TRUE)

SpecIdeal == InitIdeal /\ [][NextIdeal]_vars

\* The round trip Save All, then Restore All, with a hypervisor whose calls
\* all succeed, a restore that consumes the save file and nothing changing
\* from outside.  A round trip begins in a state where no stopped domain has
\* a save file; before records the domains running at that moment.
RunningSet == {d \in Domains : is_running(d)}

RoundTripPre == \A d \in Domains : ~is_running(d) => ~is_saved(d)

InitRound ==
    /\ Init
    /\ RoundTripPre

RoundSaveAll ==
    /\ RoundTripPre
    /\ before.phase \in {"", "restore_all"}
    /\ BatchBegin("save_all")
    /\ before' = [phase |-> "save_all", running |-> RunningSet]

RoundRestoreAll ==
    /\ before.phase = "save_all"
    /\ BatchBegin("restore_all")
    /\ before' = [before EXCEPT !.phase = "restore_all"]

NextRound ==
    \/ \E i \in Items : update_menu(i)
    \/ MenuDismiss
    \/ RoundSaveAll
    \/ save_all_step(TRUE)
    \/ RoundRestoreAll
    \/ restore_all_step(TRUE, TRUE)

SpecRound == InitRound /\ [][NextRound]_vars

\* ================================================================ claims
\* What the claims compare the program with: the hypervisor, the file system
\* and the window manager themselves.
FlagsOf(r, s) == [start |-> ~r, forceShutdown |-> r, save |-> (r /\ ~s), restore |-> s]

TruthOf(i) == FlagsOf(running[Config[i]], saveFile[Config[i]])

SavePathOf(d) == <<"/var/lib/libvirt/qemu/save/", d, ".save">>

TargetTitleOf(d) == <<d, "on", "QEMU/KVM">>

HasTarget(ws, d) == \E k \in 1..Len(ws) : ws[k].title = TargetTitleOf(d)

\* ids of the windows titled "<d> on QEMU/KVM", in listed order
RECURSIVE TargetIds(_, _)
TargetIds(ws, d) ==
    IF ws = <<>> THEN <<>>
    ELSE (IF Head(ws).title = TargetTitleOf(d) THEN <<Head(ws).id>> ELSE <<>>)
         \o TargetIds(Tail(ws), d)

CountOf(seq, kind) == Cardinality({k \in 1..Len(seq) : seq[k][1] = kind})

PosOf(d) == CHOOSE i \in Items : Config[i] = d

\* ---------------------------------------------------------------- C1
\* C1: right after the menu of a domain is built (create_tray_icon) and right
\* after each recompute on menu open (update_menu), with r = isRunning and
\* s = isSaved of that domain: Start is enabled iff not r, Force Shutdown iff
\* r, Save iff r and not s, Restore iff s, for all four (r, s).
C1_MenuEnablement ==
    \A i \in Items :
        (handler = <<"create_tray_icon", 0>> \/ handler = <<"update_menu", i>>)
            => enabled[i] = TruthOf(i)

\* a recompute for a domain that is both running and saved: Restore is
\* enabled whatever r is, Save and Start are not
C1_Witness ==
    /\ handler = <<"update_menu", 1>>
    /\ running[Config[1]] /\ saveFile[Config[1]]
    /\ enabled[1].restore /\ enabled[1].forceShutdown
    /\ ~enabled[1].save /\ ~enabled[1].start

\* ---------------------------------------------------------------- C9
\* C9: no cached state: every menu open of a domain sets its four flags from
\* isRunning and isSaved as they are at that open, whatever the flags were
\* before and whatever happened since the previous open (menu actions, Save
\* All / Restore All, changes from outside); isSaved is the existence of the
\* save file at the query; the open leaves the flags of the other menus alone.
C9_NoCachedState ==
    [][\A i \in Items :
         update_menu(i) =>
            /\ enabled'[i] = FlagsOf(running'[Config[i]], saveFile'[Config[i]])
            /\ is_saved(Config[i]) = saveFile[Config[i]]
            /\ \A j \in Items \ {i} : enabled'[j] = enabled[j]]_vars

\* the menu of item 1 was just opened and shows the present state, while the
\* world has moved since the flags of item 2 were set
C9_Witness ==
    /\ handler = <<"update_menu", 1>>
    /\ enabled[1] = TruthOf(1)
    /\ enabled[1] # FlagsOf(FALSE, FALSE)
    /\ enabled[2] # TruthOf(2)

\* ---------------------------------------------------------------- C6
\* C6: a save of a running domain D that succeeds shows exactly two
\* notifications on its sink, "saving D" and then
\* "saved to /var/lib/libvirt/qemu/save/D.save", and D is saved (isSaved)
\* when save returns.  In a Save All, the notifications are these pairs, one
\* per save, in the order of the saves (the last pair cut after "saving" when
\* that save failed).
RECURSIVE SaveTexts(_, _)
SaveTexts(cs, failed) ==
    IF cs = <<>> THEN <<>>
    ELSE <<<<"saving", Head(cs)[2]>>>>
         \o (IF Len(cs) = 1 /\ failed THEN <<>> ELSE <<<<"saved to", SavePathOf(Head(cs)[2])>>>>)
         \o SaveTexts(Tail(cs), failed)

C6_SaveNotifications ==
    /\ \A i \in Items :
          (handler = <<"save", i>> /\ raised = "") =>
             /\ msgs = << Msg(TraySink(i), <<"saving", Config[i]>>),
                          Msg(TraySink(i), <<"saved to", SavePathOf(Config[i])>>) >>
             /\ is_saved(Config[i])
    /\ handler = <<"save_all", 0>> =>
          [k \in 1..Len(msgs) |-> msgs[k].text] = SaveTexts(calls, raised # "")

C6_Witness ==
    /\ handler = <<"save", 1>>
    /\ raised = ""
    /\ Len(msgs) = 2
    /\ saveFile[Config[1]] /\ ~running[Config[1]]

\* ---------------------------------------------------------------- C7
\* C7: Restore All calls restore for exactly the configured domains whose
\* save file exists when the loop reaches them, each at most once, in the
\* order of the configuration, and for no domain without a save file.
C7_RestoreAll ==
    /\ [](handler = <<"restore_all", 0>> =>
            \A k \in 1..Len(calls) :
                /\ calls[k][1] = "restore"
                /\ k > 1 => PosOf(calls[k - 1][2]) < PosOf(calls[k][2]))
    /\ [][(batch.op = "restore_all" /\ batch' # batch) =>
            calls' = IF saveFile[Config[batch.idx]]
                       THEN Append(calls, <<"restore", Config[batch.idx]>>)
                       ELSE calls]_vars

\* the first domain had no save file and was skipped, the last one was restored
C7_Witness ==
    /\ handler = <<"restore_all", 0>>
    /\ batch.op = ""
    /\ raised = ""
    /\ calls = << <<"restore", Config[NumItems]>> >>
    /\ ~running[Config[1]] /\ ~saveFile[Config[1]]

\* ---------------------------------------------------------------- C8
\* C8 as stated: when the save (restore) of one configured domain fails, the
\* batch goes on to the later domains that are running (have a save file).
C8_BatchGoesOnAfterFailure ==
    [][(/\ batch.op # "" /\ batch' # batch /\ raised' # ""
        /\ \E j \in Items :
              /\ j > batch.idx
              /\ IF batch.op = "save_all" THEN running[Config[j]] ELSE saveFile[Config[j]])
         => batch'.op = batch.op]_vars

\* C8 amended: Save All and Restore All stop at the first failure: the
\* exception of the failing save (restore) leaves the loop, the batch is over,
\* the failing call is the last call of the batch and its completion
\* notification is not shown.
C8_BatchStopsAtFailure ==
    (handler[1] \in {"save_all", "restore_all"} /\ raised # "") =>
        /\ batch.op = ""
        /\ calls # <<>>
        /\ msgs[Len(msgs)].text[1] \in {"saving", "restoring"}
        /\ msgs[Len(msgs)].text[2] = calls[Len(calls)][2]

\* the save of the first domain failed; the second domain runs and was not saved
C8_Witness ==
    /\ handler = <<"save_all", 0>>
    /\ raised # ""
    /\ calls = << <<"save", Config[1]>> >>
    /\ running[Config[2]] /\ ~saveFile[Config[2]]

\* ---------------------------------------------------------------- C10
\* C10: every notification of a mutator called from a tray menu (Start, Force
\* Shutdown, Save, Restore, Save All, Restore All) goes to a tray sink, never
\* to the default sink, print.
C10_TraySinkOnly ==
    \A k \in 1..Len(msgs) : msgs[k].sink \in {TraySink(i) : i \in Items}

\* ---------------------------------------------------------------- C2
\* C2: when no listed window is titled "<D> on QEMU/KVM" (also when no window
\* is listed at all), trigger_virt_manager(D) executes exactly one launch of
\* the console of D and no close command.
C2_LaunchWhenNoWindow ==
    [][\A i \in Items :
         (trigger_virt_manager(i) /\ ~HasTarget(windows, Config[i]))
            => cmds' = <<LaunchCmd(Config[i])>>]_vars

\* ---------------------------------------------------------------- C3
\* C3: trigger_virt_manager(D) called while a window titled
\* "<D> on QEMU/KVM" is open (the console a previous call launched) executes
\* no launch, sends a close command to every window with that title, and no
\* window with that title is left.
C3_SecondToggleCloses ==
    [][\A i \in Items :
         (trigger_virt_manager(i) /\ HasTarget(windows, Config[i]))
            => /\ CountOf(cmds', LaunchCmd(Config[i])[1]) = 0
               /\ \A k \in 1..Len(windows) :
                     windows[k].title = TargetTitleOf(Config[i])
                        => \E c \in 1..Len(cmds') : cmds'[c] = <<"wmctrl -ic", windows[k].id>>
               /\ ~HasTarget(windows', Config[i])]_vars

\* ---------------------------------------------------------------- C4
\* C4: close_window executes exactly one close command for each listed window
\* whose title satisfies the predicate, in listed order, and none for any
\* other window.
C4_CloseEveryMatch ==
    [][\A i \in Items :
         (trigger_virt_manager(i) /\ is_window_open(WmctrlL, Config[i]) = "True")
            => cmds' = [k \in 1..Len(TargetIds(windows, Config[i])) |->
                          <<"wmctrl -ic", TargetIds(windows, Config[i])[k]>>]]_vars

\* ---------------------------------------------------------------- C5
\* C5: open_virt_manager executes the launch once, makes at most 10 polls and
\* at most 10 sleeps and ends; the first poll that finds a window titled
\* "<D> on QEMU/KVM" (the listing it reads parses and holds such a window)
\* executes one activate command, for the first such window in listed order,
\* and is the last poll: no poll and no sleep follows.
\* That it ends: an iteration of the loop is never blocked, and each one ends
\* the loop or is one of at most 10 that count up.
C5_BoundedPolling ==
    /\ [](/\ polls <= 10 /\ sleeps <= 10 /\ sleeps <= polls
          /\ CountOf(cmds, "wmctrl -ia") <= 1
          /\ poll.active =>
                /\ cmds = <<LaunchCmd(Config[poll.item])>>
                /\ poll.n < 10 /\ polls = poll.n /\ sleeps = poll.n
                /\ ENABLED poll_step
          /\ polls > 0 =>
                /\ cmds[1] = LaunchCmd(Config[handler[2]])
                /\ CountOf(cmds, LaunchCmd(Config[handler[2]])[1]) = 1)
    /\ [][poll_step => (~poll'.active \/ poll'.n = poll.n + 1)]_vars
    /\ [][(/\ poll_step
           /\ HasTarget(windows, Config[poll.item])
           /\ \A k \in 1..Len(windows) : windows[k].title # <<>>)
            => /\ cmds' = Append(cmds, <<"wmctrl -ia", TargetIds(windows, Config[poll.item])[1]>>)
               /\ ~poll'.active
               /\ sleeps' = sleeps]_vars
    /\ [][(polls' > polls \/ sleeps' > sleeps) => poll.active]_vars

\* two polls found nothing, the third found two consoles and activated the first
C5_Witness ==
    /\ handler = <<"trigger", 1>>
    /\ ~poll.active
    /\ polls = 3 /\ sleeps = 2
    /\ Len(TargetIds(windows, Config[1])) = 2
    /\ cmds = <<LaunchCmd(Config[1]), <<"wmctrl -ia", TargetIds(windows, Config[1])[1]>> >>

\* ---------------------------------------------------------------- C11
\* C11: when each of the 10 polls of open_virt_manager(D) returns without
\* having found a window titled "<D> on QEMU/KVM" (each is followed by its
\* sleep), the call returns normally: no exception, no activate command (the
\* launch is the only command), no notification, and no poll after the 10th.
C11_SilentWhenNotFound ==
    /\ []((handler[1] = "trigger" /\ sleeps = MaxPolls) =>
            /\ ~poll.active
            /\ polls = MaxPolls
            /\ raised = ""
            /\ cmds = <<LaunchCmd(Config[handler[2]])>>
            /\ msgs = <<>> /\ calls = <<>>)
    /\ [][polls' > polls => polls < MaxPolls]_vars
    /\ [][(poll_step /\ sleeps' = MaxPolls) =>
            (~poll'.active /\ raised' = "" /\ cmds' = cmds /\ msgs' = <<>>)]_vars

\* ten polls read a listing with other windows only; the call has returned
C11_Witness ==
    /\ handler = <<"trigger", 1>>
    /\ ~poll.active
    /\ polls = 10 /\ sleeps = 10
    /\ raised = ""
    /\ windows # <<>>
    /\ ~HasTarget(windows, Config[1])

\* ---------------------------------------------------------------- C12
\* C12: each mutator (start, force_shutdown, save, restore) shows its
\* progress notification ("starting", "force shutting down", "saving",
\* "restoring") before any hypervisor call, so it is shown also when the
\* call fails; a failing lookup or operation raises out of the mutator (and
\* out of the batch loop), and then the completion notification is not shown;
\* the completion notification ("started", "force shut down", "saved to",
\* "restored from") is shown only after the hypervisor operation succeeded.
ProgressOf(op) ==
    CASE op = "start" -> "starting"
      [] op = "force_shutdown" -> "force shutting down"
      [] op = "save" -> "saving"
      [] op = "restore" -> "restoring"

CompletionOf(op, d) ==
    CASE op = "start" -> <<"started", d>>
      [] op = "force_shutdown" -> <<"force shut down", d>>
      [] op = "save" -> <<"saved to", SavePathOf(d)>>
      [] op = "restore" -> <<"restored from", SavePathOf(d)>>

C12_ProgressBeforeCompletionAfter ==
    /\ [][Len(calls') = Len(calls) + 1 =>
            LET op == calls'[Len(calls')][1]
                d == calls'[Len(calls')][2]
                n == Len(msgs)
            IN
            /\ SubSeq(msgs', 1, n) = msgs
            /\ Len(msgs') > n
            /\ msgs'[n + 1].text = <<ProgressOf(op), d>>
            /\ raised' # "" =>
                  /\ Len(msgs') = n + 1
                  /\ batch'.op = ""
            /\ raised' = "" =>
                  /\ Len(msgs') = n + 2
                  /\ msgs'[n + 2].text = CompletionOf(op, d)
                  /\ msgs'[n + 2].sink = msgs'[n + 1].sink
                  /\ op \in {"start", "restore"} => (~running[d] /\ running'[d])
                  /\ op \in {"force_shutdown", "save"} => (running[d] /\ ~running'[d])
                  /\ op = "save" => saveFile'[d]
                  /\ op = "restore" => saveFile[d]]_vars
    /\ [](handler[1] \in {"start", "force_shutdown", "save", "restore"} =>
            /\ calls = << <<handler[1], Config[handler[2]]>> >>
            /\ Len(msgs) = IF raised = "" THEN 2 ELSE 1)

\* a restore from the menu failed: "restoring" is all that was shown
C12_Witness ==
    /\ handler = <<"restore", 1>>
    /\ raised # ""
    /\ [k \in 1..Len(msgs) |-> msgs[k].text] = << <<"restoring", Config[1]>> >>
    /\ ~running[Config[1]]

\* ---------------------------------------------------------------- C13
\* C13: Save All calls save for exactly the configured domains that are
\* running when the loop reaches them, whether or not a save file exists
\* already, each at most once per configuration entry, in the order of the
\* configuration, and for no domain that is not running at that moment.
C13_SaveAll ==
    /\ [](handler = <<"save_all", 0>> =>
            \A k \in 1..Len(calls) :
                /\ calls[k][1] = "save"
                /\ k > 1 => PosOf(calls[k - 1][2]) < PosOf(calls[k][2]))
    /\ [][(batch.op = "save_all" /\ batch' # batch) =>
            calls' = IF running[Config[batch.idx]]
                       THEN Append(calls, <<"save", Config[batch.idx]>>)
                       ELSE calls]_vars

\* the first domain was not running and was skipped, the last one was saved
C13_Witness ==
    /\ handler = <<"save_all", 0>>
    /\ batch.op = ""
    /\ raised = ""
    /\ calls = << <<"save", Config[NumItems]>> >>
    /\ ~running[Config[1]] /\ saveFile[Config[NumItems]]

\* ---------------------------------------------------------------- C14
\* C14: get_wmctrl_items handles only the non-empty lines of the listing: it
\* returns one record per non-empty line, in listed order, and for an empty
\* output it returns the empty sequence without raising, so that a poll of
\* try_get_wmctrl_item on an empty listing reports not-found (and sleeps) and
\* close_window executes no command.
C14_NonEmptyLinesOnly ==
    [][poll_step =>
         LET got == get_wmctrl_items(WmctrlL) IN
         /\ got.raised = ""
         /\ Len(got.items) = Len(windows)
         /\ \A k \in 1..Len(windows) : got.items[k].window_id = windows[k].id
         /\ windows = <<>> =>
               /\ raised' = "" /\ sleeps' = sleeps + 1 /\ cmds' = cmds
               /\ close_window_cmds(got.items, Config[poll.item]) = <<>>]_vars

\* ---------------------------------------------------------------- C15
\* C15 as stated: of every listing line, get_wmctrl_items takes the first
\* token as the window id, ignores the second token, and takes the whole
\* remainder of the line after the second token as the title.
C15_TitleAfterSecondToken ==
    [][poll_step =>
         LET got == get_wmctrl_items(WmctrlL) IN
         got.raised = "" =>
            \A k \in 1..Len(got.items) :
                /\ got.items[k].window_id = WmctrlL[k][1]
                /\ got.items[k].title = SubSeq(WmctrlL[k], 3, Len(WmctrlL[k]))]_vars

\* C15 amended: of every listing line with at least four tokens,
\* get_wmctrl_items takes the first token as the window id, ignores the
\* second and the third token (desktop and host), and takes the whole
\* remainder of the line after the third token as the title; a listing with a
\* line of fewer than four tokens raises ValueError.  So a poll for D on a
\* listing that parses and has a line "<id> <desktop> <host> <D> on QEMU/KVM"
\* activates <id>.
C15_TitleAfterThirdToken ==
    [][poll_step =>
         LET got == get_wmctrl_items(WmctrlL)
             lines == SplitLines(WmctrlL)
         IN
         /\ got.raised = "" <=> \A k \in 1..Len(lines) : Len(lines[k]) >= 4
         /\ got.raised # "" => (got.raised = "ValueError" /\ raised' = "ValueError")
         /\ got.raised = "" =>
               /\ Len(got.items) = Len(lines)
               /\ \A k \in 1..Len(lines) :
                     /\ got.items[k].window_id = lines[k][1]
                     /\ got.items[k].title = SubSeq(lines[k], 4, Len(lines[k]))
               /\ HasTarget(windows, Config[poll.item]) =>
                     cmds' = Append(cmds, ActivateCmd(TargetIds(windows, Config[poll.item])[1]))]_vars

\* a poll parsed the lines "0x01 0 host xterm" and "0x02 0 host a on QEMU/KVM"
\* and activated 0x02
C15_Witness ==
    /\ handler = <<"trigger", 1>>
    /\ polls = 1
    /\ Len(windows) = 2
    /\ windows[1].title = <<"xterm">>
    /\ windows[2].title = TargetTitleOf(Config[1])
    /\ cmds = <<LaunchCmd(Config[1]), ActivateCmd(windows[2].id)>>

\* ---------------------------------------------------------------- C19
\* C19: on every listing and for every domain D, is_window_open returns True
\* iff try_get_wmctrl_item finds a window, and one of them raises only if the
\* other raises too; so whenever trigger_virt_manager takes the close branch,
\* close_window executes at least one close command.
C19_ExistsAgreesWithFind ==
    [][\A i \in Items :
         trigger_virt_manager(i) =>
            LET open == is_window_open(WmctrlL, Config[i])
                r == try_get_wmctrl_item(WmctrlL, Config[i])
            IN
            /\ open = "True" <=> r.found
            /\ open = "IndexError" <=> r.raised # ""
            /\ open = "True" => (raised' = "" /\ cmds' # <<>>)]_vars

\* ---------------------------------------------------------------- C16
\* C16: after every recompute on menu open the four flags are those of one
\* single snapshot (r, s) of (isRunning, isSaved), so exactly one of Start and
\* Force Shutdown is enabled and Save and Restore are never both enabled,
\* also when the hypervisor state or the save file changes from outside
\* while the recompute makes its successive queries.
C16_SingleSnapshot ==
    \A i \in Items :
        handler = <<"update_menu", i>> =>
            /\ \E r \in BOOLEAN, s \in BOOLEAN : enabled[i] = FlagsOf(r, s)
            /\ enabled[i].start # enabled[i].forceShutdown
            /\ ~(enabled[i].save /\ enabled[i].restore)

\* ---------------------------------------------------------------- C17
\* C17 as stated: when at the start no configured domain is both running and
\* saved, every hypervisor call does what it should and nothing changes from
\* outside, then no sequence of menu actions enabled at their menu open
\* (Start, Force Shutdown, Save, Restore), Save All and Restore All leads to
\* a domain that is both running and saved.
C17_NeverRunningAndSaved ==
    \A d \in Domains : ~(running[d] /\ saveFile[d])

\* C17 amended: under the same assumptions, Force Shutdown, Save, Restore,
\* Save All and Restore All never make a domain both running and saved; the
\* only step that does is Start from the menu on a stopped domain that has a
\* save file (Start is enabled whenever the domain is not running; the start
\* succeeds and leaves the save file in place).
C17_OnlyStartOfSavedDomain ==
    /\ [][\A d \in Domains :
            (~(running[d] /\ saveFile[d]) /\ running'[d] /\ saveFile'[d]) =>
               /\ handler' = <<"start", PosOf(d)>>
               /\ raised' = ""
               /\ ~running[d] /\ saveFile[d]
               /\ enabled[PosOf(d)].start /\ enabled[PosOf(d)].restore]_vars
    /\ [][\A i \in Items :
            (handler' = <<"start", i>> /\ handler # handler' /\ saveFile[Config[i]])
               => (running'[Config[i]] /\ saveFile'[Config[i]])]_vars

\* a stopped domain with a save file was started from its menu
C17_Witness ==
    /\ handler = <<"start", 1>>
    /\ raised = ""
    /\ running[Config[1]] /\ saveFile[Config[1]]
    /\ msgs[2].text = <<"started", Config[1]>>

\* ---------------------------------------------------------------- C18
\* C18: when no stopped configured domain has a save file, every hypervisor
\* call succeeds (a save stops the domain and writes its save file, a restore
\* starts it and consumes the file) and nothing changes from outside, then
\* Save All followed by Restore All leaves the set of running configured
\* domains as it was before the Save All, and none of them has a save file.
\* In between, after the Save All, no domain runs and the saved domains are
\* those that ran.
C18_RoundTrip ==
    /\ (before.phase = "save_all" /\ batch.op = "") =>
          /\ raised = ""
          /\ {d \in Domains : running[d]} = {}
          /\ {d \in Domains : saveFile[d]} = before.running
    /\ (before.phase = "restore_all" /\ batch.op = "") =>
          /\ raised = ""
          /\ {d \in Domains : running[d]} = before.running
          /\ \A d \in before.running : ~saveFile[d]

\* every configured domain ran before the Save All; all were saved and then
\* restored
C18_Witness ==
    /\ before.phase = "restore_all"
    /\ batch.op = ""
    /\ handler = <<"restore_all", 0>>
    /\ before.running = Domains
    /\ Len(calls) = NumItems
    /\ \A d \in Domains : running[d] /\ ~saveFile[d]

====
